---------------------------- MODULE Spec2Model ----------------------------
(***************************************************************************)
(* Model of Code/noaa_weatherdata_downloader.py: the per-year pipeline     *)
(* Locate -> Fetch loop -> Extract -> Classify of the NOAA ISD downloader. *)
(*                                                                         *)
(* The remote archive of a year is the byte sequence Remote; a local       *)
(* archive file is a byte sequence too, so that a resumed file can be      *)
(* compared byte by byte with a fresh download.  One streamed chunk        *)
(* (block_size) is one byte of the model.                                  *)
(***************************************************************************)
EXTENDS Naturals, Integers, Sequences, FiniteSets, TLC

\* ------------------------------------------------------------------ bounds
\* Size in bytes (chunks) of the remote archive <year>.tar.gz.
ArchiveSize == 3
\* Largest local archive file the enumerated server responses may produce.
MaxFileLen == 5
\* The max_retries argument of weatherdata_download_and_save (default 10 in
\* the source, line 79); the model runs the attempt loop with this value.
max_retries == 2
\* Number of member files in a year's archive.
NumMembers == 2
\* Cap of the (otherwise unbounded) count of invocations by the outer loop.
MaxInvocations == 2
\* Number of further runs of the script on the same output folder.
MaxReruns == 1
\* Longest station name given to the region-code extraction on its own.
MaxNameLen == 5

\* ------------------------------------------------------------ data
\* year_list (line 44): the years to process, in list order.  The years
\* are numbered 1, 2 in place of calendar years.
year_list == <<1, 2>>

Years == {year_list[i] : i \in 1..Len(year_list)}

\* The complete remote archive: byte i of the archive is i.
Remote == [i \in 1..ArchiveSize |-> i]

\* Bytes from offset off (0-based) to the end: the body of a 206 answer to
\* "Range: bytes=off-".
RemoteFrom(off) == SubSeq(Remote, off + 1, ArchiveSize)

IsPrefix(s, t) == Len(s) <= Len(t) /\ SubSeq(t, 1, Len(s)) = s

Min(a, b) == IF a <= b THEN a ELSE b

\* ------------------------------------------------------------ records
\* The member files of a year's archive, numbered; member m is the record
\* file "<m>.csv".
Members == 1..NumMembers

\* A record file's content, as far as the classifier reads it: a station
\* name (the NAME field of the first data row, a sequence of characters),
\* an empty NAME field (NaN), or a file pandas cannot read or that has no
\* data row or no NAME column (read_csv or .loc raises).  NoFile: no file.
Named(n) == [kind |-> "name", name |-> n]
NaN == [kind |-> "nan", name |-> <<>>]
Malformed == [kind |-> "malformed", name |-> <<>>]
NoFile == [kind |-> "nofile", name |-> <<>>]

\* Station names.
Name_CA == <<"A", ",", " ", "C", "A", " ", "U", "S">>       \* "A, CA US"
Name_AK == <<"P", ",", " ", "A", "K", " ", "U", "S">>       \* "P, AK US"
Name_FR == <<"B", ",", " ", "F", "R">>                      \* "B, FR"
Name_NoCode == <<"S", "T", "A", " ", "U", "S">>             \* "STA US"

Records == {Named(Name_CA), Named(Name_AK), Named(Name_FR), Named(Name_NoCode),
            NaN, Malformed}

Upper == {"A", "B", "C", "D", "E", "F", "G", "H", "I", "J", "K", "L", "M",
          "N", "O", "P", "Q", "R", "S", "T", "U", "V", "W", "X", "Y", "Z"}

\* \w of the regular expression, for the characters station names use.
IsWordChar(s, p) == p >= 1 /\ p <= Len(s) /\ s[p] \in Upper

\* \b between positions p and p + 1 of s.
Boundary(s, p) == IsWordChar(s, p) /= IsWordChar(s, p + 1)

\* First position at or after p that holds no white space (\s*).
RECURSIVE SkipSpaces(_, _)
SkipSpaces(s, p) ==
    IF p <= Len(s) /\ s[p] = " " THEN SkipSpaces(s, p + 1) ELSE p

\* "US\b" at position p.
MarkerAt(s, p) ==
    /\ p + 1 <= Len(s)
    /\ s[p] = "U" /\ s[p + 1] = "S"
    /\ Boundary(s, p + 1)

\* The pattern \b([A-Z]{2})\s*,?\s*US\b (line 218) matches at position i.
MatchAt(s, i) ==
    /\ i + 1 <= Len(s)
    /\ Boundary(s, i - 1)
    /\ s[i] \in Upper /\ s[i + 1] \in Upper
    /\ LET j == SkipSpaces(s, i + 2)
       IN  \/ MarkerAt(s, j)
           \/ /\ j <= Len(s) /\ s[j] = ","
              /\ MarkerAt(s, SkipSpaces(s, j + 1))

\* None as a region code: the empty sequence.
None == <<>>

\* extract_state_abbreviation (lines 203-232): group 1 of the leftmost match.
extract_state_abbreviation(s) ==
    LET hits == {i \in 1..Len(s) : MatchAt(s, i)}
    IN  IF hits = {} THEN None
        ELSE LET i == CHOOSE k \in hits : \A h \in hits : k <= h
             IN  <<s[i], s[i + 1]>>

\* station_name[-2:] (line 278).
LastTwo(s) == IF Len(s) >= 2 THEN SubSeq(s, Len(s) - 1, Len(s)) ELSE s

\* Lines 275-286: the region code a readable record is filed under, None
\* when it stays in place.
RegionOf(rec) ==
    IF rec.kind /= "name" THEN None
    ELSE IF LastTwo(rec.name) /= <<"U", "S">> THEN None
    ELSE extract_state_abbreviation(rec.name)

\* The elements of a set of numbers as an ascending sequence.
RECURSIVE Ascending(_)
Ascending(S) ==
    IF S = {} THEN <<>>
    ELSE LET m == CHOOSE k \in S : \A h \in S : k <= h
         IN  <<m>> \o Ascending(S \ {m})

VARIABLES
    yi,             \* position of the main loop in year_list (line 330)
    pc,             \* position of the script
    tarExists,      \* [Years -> BOOLEAN]: <year>.tar.gz exists locally
    tarBytes,       \* [Years -> Seq(Nat)]: its content
    downloaded,     \* downloaded_zipfile_path: "unset", "found", "path", "None"
    attempt,        \* loop variable of the attempt loop (line 110)
    existing_size,  \* existing_size of the current attempt (lines 116, 119)
    ranged,         \* whether the request carried a Range header (line 117)
    status,         \* response.status_code of the current attempt (0: none)
    body,           \* bytes of the response body not yet streamed
    partial,        \* content of the local file when the request was sent
    requests,       \* session.get calls made by the current invocation
    invocations,    \* invocations of weatherdata_download_and_save, capped
    serverOK,       \* the endpoint answers every request correctly from now on
    start_size,     \* [Years -> Int]: size of the archive at process start, -1: none
    runs,           \* runs of the script completed or ended before this one
    tree0,          \* [Years -> [rest, usa]]: at process start, Rest exists / USA holds files
    station_name,   \* input_string of extract_state_abbreviation run on its own
    state_abbreviation,  \* the region code the classifier derives from it
    err,            \* the exception that ended the script, "none" otherwise
    allExists,      \* [Years -> BOOLEAN]: "<year> Weather Station Data - All" exists
    allFiles,       \* [Years -> [Members -> record or NoFile]]: its .csv files
    usaFiles,       \* [Years -> set of <<code, member>>]: files under "... - USA/<code>"
    restExists,     \* [Years -> BOOLEAN]: "<year> Weather Station Data - Rest" exists
    restFiles,      \* [Years -> SUBSET Members]: its files
    summaryFile,    \* [Years -> [exists, rows]]: "<year> - USA Weather Stations.csv"
    sentinel,       \* [Years -> BOOLEAN]: "<year>_No_USA_Weather_Stations.txt" exists
    extracted,      \* members of file_list already extracted (line 190)
    csv_files,      \* csv_files (line 255)
    file,           \* loop variable of the classification loop (line 262), 1-based
    summary_df      \* summary_df (line 258): rows <<member, code>>

fetchVars == <<attempt, existing_size, ranged, status, body, partial, requests>>
treeVars == <<allExists, allFiles, usaFiles, restExists, restFiles, summaryFile,
              sentinel>>
classVars == <<csv_files, file, summary_df>>
workVars == <<treeVars, extracted, classVars>>
startVars == <<start_size, runs, tree0, station_name, state_abbreviation>>
vars == <<yi, pc, tarExists, tarBytes, downloaded, attempt, existing_size,
          ranged, status, body, partial, requests, invocations, serverOK,
          start_size, err, allExists, allFiles, usaFiles, restExists, restFiles,
          summaryFile, sentinel, extracted, csv_files, file, summary_df,
          runs, tree0, station_name, state_abbreviation>>

\* The year of the current iteration of the main loop (line 330).
year == year_list[yi]

\* ------------------------------------------------------------ Init
\* At process start a year's archive is absent, or was left by an earlier
\* run or by the operator: a prefix of the remote archive (0..ArchiveSize
\* bytes; ArchiveSize bytes is the complete file).
Init ==
    /\ yi = 1
    /\ pc = "locate"
    /\ start_size \in [Years -> -1..ArchiveSize]
    /\ tarExists = [y \in Years |-> start_size[y] >= 0]
    /\ tarBytes = [y \in Years |->
                     IF start_size[y] >= 0 THEN SubSeq(Remote, 1, start_size[y])
                     ELSE <<>>]
    /\ downloaded = "unset"
    /\ attempt = 0
    /\ existing_size = 0
    /\ ranged = FALSE
    /\ status = 0
    /\ body = <<>>
    /\ partial = <<>>
    /\ requests = 0
    /\ invocations = 0
    /\ serverOK = FALSE
    /\ err = "none"
    /\ allExists = [y \in Years |-> FALSE]
    /\ allFiles = [y \in Years |-> [m \in Members |-> NoFile]]
    /\ usaFiles = [y \in Years |-> {}]
    /\ restExists = [y \in Years |-> FALSE]
    /\ restFiles = [y \in Years |-> {}]
    /\ summaryFile = [y \in Years |-> [exists |-> FALSE, rows |-> <<>>]]
    /\ sentinel = [y \in Years |-> FALSE]
    /\ extracted = 0
    /\ csv_files = <<>>
    /\ file = 0
    /\ summary_df = <<>>
    /\ runs = 0
    /\ tree0 = [y \in Years |-> [rest |-> FALSE, usa |-> FALSE]]
    /\ station_name = <<>>
    /\ state_abbreviation = None

\* ------------------------------------------------------------ locate
\* find_existing_tar_file (lines 67-76): the path of <year>.tar.gz if one
\* exists under the parent folder (the output folder of the year included).
find_existing_tar_file(y) == IF tarExists[y] THEN "found" ELSE "None"

\* Faulty variant: the result of the search is ignored and the download runs.
Locate_AlwaysFetch ==
    /\ pc = "locate"
    /\ downloaded' = find_existing_tar_file(year)
    /\ pc' = "invoke"
    /\ invocations' = 0
    /\ UNCHANGED <<yi, tarExists, tarBytes, fetchVars, serverOK, startVars, err,
                   workVars>>

\* Main, lines 337-341.
Locate ==
    /\ pc = "locate"
    /\ downloaded' = find_existing_tar_file(year)
    /\ pc' = IF downloaded' = "found" THEN "extract_open" ELSE "invoke"
    /\ invocations' = 0
    /\ UNCHANGED <<yi, tarExists, tarBytes, fetchVars, serverOK, startVars, err,
                   workVars>>

\* ------------------------------------------------------------ fetch
\* Call of weatherdata_download_and_save (line 344) up to the head of the
\* attempt loop (lines 94-110).  With max_retries = 0 the loop body never
\* runs and the function falls off its end, returning None.
Invoke ==
    /\ pc = "invoke"
    /\ invocations' = Min(invocations + 1, MaxInvocations)
    /\ requests' = 0
    /\ attempt' = 1
    /\ IF max_retries >= 1
         THEN pc' = "attempt" /\ UNCHANGED downloaded
         ELSE pc' = "returned" /\ downloaded' = "None"
    /\ UNCHANGED <<yi, tarExists, tarBytes, existing_size, ranged, status, body,
                   partial, serverOK, startVars, err,
                   workVars>>

\* The responses a correct endpoint gives: 200 with the whole archive to a
\* request without Range, 206 with the rest to a satisfiable range, 416 to a
\* range at or past the end.
CorrectResponse(hasRange, off) ==
    IF ~hasRange THEN [status |-> 200, body |-> Remote]
    ELSE IF off < ArchiveSize THEN [status |-> 206, body |-> RemoteFrom(off)]
    ELSE [status |-> 416, body |-> <<>>]

\* Every answer session.get can deliver to the code (line 121): the correct
\* one, a full-content answer of a server that ignores Range, or an error
\* status that is not retried by the transport (404).  A 5xx status is
\* retried by the mounted urllib3 Retry (line 106) and surfaces as
\* RetryError, one of the exceptions of RequestFails.
Responses(hasRange, off) ==
    {CorrectResponse(hasRange, off),
     [status |-> 200, body |-> Remote],
     [status |-> 404, body |-> <<>>]}

\* Faulty variant: the file opened with "wb", which truncates it.
OpenForWrite_Truncate(old) == <<>>

\* Lines 129 and 138: the file is opened in append mode and every chunk is
\* written at its end.
OpenForWrite(old) == old

WriteChunk(old, data) == Append(old, data)

\* Lines 112-129: compute the offset, send the request, and on 200 or 206
\* open the file for appending; any other status fails the attempt.
SendRequest ==
    /\ pc = "attempt"
    /\ existing_size' = IF tarExists[year] THEN Len(tarBytes[year]) ELSE 0
    /\ ranged' = tarExists[year]
    /\ partial' = IF tarExists[year] THEN tarBytes[year] ELSE <<>>
    /\ requests' = requests + 1
    /\ \E r \in Responses(ranged', existing_size') :
         /\ serverOK => r = CorrectResponse(ranged', existing_size')
         /\ Len(partial') + Len(r.body) <= MaxFileLen
         /\ status' = r.status
         /\ IF r.status \in {200, 206}
              THEN /\ body' = r.body
                   /\ tarExists' = [tarExists EXCEPT ![year] = TRUE]
                   /\ tarBytes' = [tarBytes EXCEPT ![year] = OpenForWrite(partial')]
                   /\ pc' = "stream"
              ELSE /\ body' = <<>>
                   /\ pc' = "attempt_failed"
                   /\ UNCHANGED <<tarExists, tarBytes>>
    /\ UNCHANGED <<yi, downloaded, attempt, invocations, serverOK, startVars, err,
                   workVars>>

\* Line 121 raising a RequestException (connection error, timeout,
\* RetryError after repeated 5xx): caught at line 147.
RequestFails ==
    /\ pc = "attempt"
    /\ ~serverOK
    /\ existing_size' = IF tarExists[year] THEN Len(tarBytes[year]) ELSE 0
    /\ ranged' = tarExists[year]
    /\ partial' = IF tarExists[year] THEN tarBytes[year] ELSE <<>>
    /\ requests' = requests + 1
    /\ status' = 0
    /\ body' = <<>>
    /\ pc' = "attempt_failed"
    /\ UNCHANGED <<yi, tarExists, tarBytes, downloaded, attempt, invocations,
                   serverOK, startVars, err,
                   workVars>>

\* Lines 137-139: one chunk of the body is appended to the file.
StreamChunk ==
    /\ pc = "stream"
    /\ body /= <<>>
    /\ tarBytes' = [tarBytes EXCEPT ![year] = WriteChunk(tarBytes[year], Head(body))]
    /\ body' = Tail(body)
    /\ UNCHANGED <<yi, pc, tarExists, downloaded, attempt, existing_size, ranged,
                   status, partial, requests, invocations, serverOK, startVars, err,
                   workVars>>

\* Faulty variant: the streaming loop outside the try block, its exception
\* ends the script.
StreamFails_Escapes ==
    /\ pc = "stream"
    /\ body /= <<>>
    /\ ~serverOK
    /\ pc' = "crashed"
    /\ err' = "RequestException"
    /\ UNCHANGED <<yi, tarExists, tarBytes, downloaded, fetchVars, invocations,
                   serverOK, startVars, workVars>>

\* Line 137 raising a RequestException before the body is complete (the
\* connection breaks or times out in mid-stream): caught at line 147, the
\* bytes written so far stay in the file.
StreamFails ==
    /\ pc = "stream"
    /\ body /= <<>>
    /\ ~serverOK
    /\ pc' = "attempt_failed"
    /\ UNCHANGED <<yi, tarExists, tarBytes, downloaded, fetchVars, invocations,
                   serverOK, startVars, err,
                   workVars>>

\* Lines 141-142: the body is exhausted, the function returns file_path.
StreamDone ==
    /\ pc = "stream"
    /\ body = <<>>
    /\ pc' = "returned"
    /\ downloaded' = "path"
    /\ UNCHANGED <<yi, tarExists, tarBytes, fetchVars, invocations, serverOK,
                   startVars, err,
                   workVars>>

\* Faulty variant: the last-attempt test off by one (attempt < max_retries - 1), so
\* that None is returned one attempt early.
AttemptFailed_OffByOne ==
    /\ pc = "attempt_failed"
    /\ IF attempt < max_retries - 1
         THEN pc' = "retry_sleep" /\ UNCHANGED downloaded
         ELSE pc' = "returned" /\ downloaded' = "None"
    /\ UNCHANGED <<yi, tarExists, tarBytes, fetchVars, invocations, serverOK,
                   startVars, err, workVars>>

\* Lines 150-155: after a failed attempt, sleep and retry, or return None
\* when this was the last attempt.
AttemptFailed ==
    /\ pc = "attempt_failed"
    /\ IF attempt < max_retries
         THEN pc' = "retry_sleep" /\ UNCHANGED downloaded
         ELSE pc' = "returned" /\ downloaded' = "None"
    /\ UNCHANGED <<yi, tarExists, tarBytes, fetchVars, invocations, serverOK,
                   startVars, err,
                   workVars>>

\* Line 152 and the loop head, line 110: time.sleep(retry_delay), next attempt.
RetrySleep ==
    /\ pc = "retry_sleep"
    /\ attempt' = attempt + 1
    /\ pc' = "attempt"
    /\ UNCHANGED <<yi, tarExists, tarBytes, downloaded, existing_size, ranged,
                   status, body, partial, requests, invocations, serverOK,
                   startVars, err,
                   workVars>>

\* Faulty variant: the loop is left whatever the function returned.
AfterReturn_GiveUp ==
    /\ pc = "returned"
    /\ pc' = "extract_open"
    /\ UNCHANGED <<yi, tarExists, tarBytes, downloaded, fetchVars, invocations,
                   serverOK, startVars, err, workVars>>

\* Main, lines 346-349: leave the loop on a path, otherwise go to the cooldown.
AfterReturn ==
    /\ pc = "returned"
    /\ pc' = IF downloaded /= "None" THEN "extract_open" ELSE "cooldown"
    /\ UNCHANGED <<yi, tarExists, tarBytes, downloaded, fetchVars, invocations,
                   serverOK, startVars, err,
                   workVars>>

\* Main, line 350 and the loop head, line 343: time.sleep(60), invoke again.
Cooldown ==
    /\ pc = "cooldown"
    /\ pc' = "invoke"
    /\ UNCHANGED <<yi, tarExists, tarBytes, downloaded, fetchVars, invocations,
                   serverOK, startVars, err,
                   workVars>>

\* ------------------------------------------------------------ extract
\* tarfile.open and tar.getmembers (lines 183-187) read the whole compressed
\* stream: they succeed on the complete archive and raise on any other
\* content (truncated or corrupted gzip stream).
Readable(bytes) == bytes = Remote

\* weatherdata_extract_file, lines 171-187: create the All directory, open
\* the archive and list its members.  An exception leaves the function and,
\* uncaught at line 353, ends the script.  The locals of the returned
\* weatherdata_download_and_save are gone.
ExtractOpen ==
    /\ pc = "extract_open"
    /\ allExists' = [allExists EXCEPT ![year] = TRUE]
    /\ extracted' = 0
    /\ IF Readable(tarBytes[year])
         THEN pc' = "extract_member" /\ UNCHANGED err
         ELSE pc' = "crashed" /\ err' = "ExtractionError"
    /\ attempt' = 0 /\ existing_size' = 0 /\ ranged' = FALSE /\ status' = 0
    /\ body' = <<>> /\ partial' = <<>> /\ requests' = 0
    /\ UNCHANGED <<yi, tarExists, tarBytes, downloaded, invocations, serverOK,
                   startVars, allFiles, usaFiles, restExists, restFiles,
                   summaryFile, sentinel, classVars>>

\* Lines 190-192: tar.extract writes the next member into the All directory.
\* The member's content is whatever the archive holds for it.
ExtractMember ==
    /\ pc = "extract_member"
    /\ extracted < NumMembers
    /\ \E rec \in Records :
         allFiles' = [allFiles EXCEPT ![year][extracted + 1] = rec]
    /\ extracted' = extracted + 1
    /\ UNCHANGED <<yi, pc, tarExists, tarBytes, downloaded, fetchVars, invocations,
                   serverOK, startVars, err, allExists, usaFiles, restExists,
                   restFiles, summaryFile, sentinel, classVars>>

\* Faulty variant: the archive removed on the way out of a failed extraction (the
\* os.remove placed in a finally clause).
ExtractMemberFails_Removes ==
    /\ pc = "extract_member"
    /\ extracted < NumMembers
    /\ pc' = "crashed"
    /\ err' = "ExtractionError"
    /\ tarExists' = [tarExists EXCEPT ![year] = FALSE]
    /\ tarBytes' = [tarBytes EXCEPT ![year] = <<>>]
    /\ UNCHANGED <<yi, downloaded, fetchVars, invocations, serverOK, startVars,
                   workVars>>

\* Line 191 raising (I/O failure while writing a member): uncaught, the
\* script ends; line 197 is not reached.
ExtractMemberFails ==
    /\ pc = "extract_member"
    /\ extracted < NumMembers
    /\ pc' = "crashed"
    /\ err' = "ExtractionError"
    /\ UNCHANGED <<yi, tarExists, tarBytes, downloaded, fetchVars, invocations,
                   serverOK, startVars, workVars>>

\* Lines 194-200: every member is extracted; delete the archive and return
\* the All directory.
ExtractRemove ==
    /\ pc = "extract_member"
    /\ extracted = NumMembers
    /\ tarExists' = [tarExists EXCEPT ![year] = FALSE]
    /\ tarBytes' = [tarBytes EXCEPT ![year] = <<>>]
    /\ pc' = "classify_list"
    /\ UNCHANGED <<yi, downloaded, fetchVars, invocations, serverOK, startVars,
                   err, workVars>>

\* ------------------------------------------------------------ classify
\* usa_weatherstation_filter, lines 255-259.
ClassifyList ==
    /\ pc = "classify_list"
    /\ csv_files' = Ascending({m \in Members : allFiles[year][m] /= NoFile})
    /\ summary_df' = <<>>
    /\ file' = 1
    /\ extracted' = 0
    /\ pc' = "classify_file"
    /\ UNCHANGED <<yi, tarExists, tarBytes, downloaded, fetchVars, invocations,
                   serverOK, startVars, err, treeVars>>

\* Faulty variant: the summary row appended outside "if state_name is not
\* None", for every record whose name ends in US.
ClassifyFile_RowOutsideIf ==
    /\ pc = "classify_file"
    /\ file <= Len(csv_files)
    /\ LET m == csv_files[file]
           rec == allFiles[year][m]
       IN  IF rec = Malformed
             THEN /\ pc' = "crashed"
                  /\ err' = "ClassificationError"
                  /\ UNCHANGED <<allFiles, usaFiles, summary_df, file>>
             ELSE /\ IF RegionOf(rec) /= None
                       THEN /\ allFiles' = [allFiles EXCEPT ![year][m] = NoFile]
                            /\ usaFiles' = [usaFiles EXCEPT
                                  ![year] = @ \cup {<<RegionOf(rec), m>>}]
                       ELSE UNCHANGED <<allFiles, usaFiles>>
                  /\ IF rec.kind = "name" /\ LastTwo(rec.name) = <<"U", "S">>
                       THEN summary_df' = Append(summary_df, <<m, RegionOf(rec)>>)
                       ELSE UNCHANGED summary_df
                  /\ file' = file + 1
                  /\ UNCHANGED <<pc, err>>
    /\ UNCHANGED <<yi, tarExists, tarBytes, downloaded, fetchVars, invocations,
                   serverOK, startVars, allExists, restExists, restFiles,
                   summaryFile, sentinel, extracted, csv_files>>

\* Faulty variant: shutil.copy in place of shutil.move, the file stays in All.
ClassifyFile_Copies ==
    /\ pc = "classify_file"
    /\ file <= Len(csv_files)
    /\ LET m == csv_files[file]
           rec == allFiles[year][m]
       IN  IF rec = Malformed
             THEN /\ pc' = "crashed"
                  /\ err' = "ClassificationError"
                  /\ UNCHANGED <<usaFiles, summary_df, file>>
             ELSE /\ IF RegionOf(rec) /= None
                       THEN /\ usaFiles' = [usaFiles EXCEPT
                                  ![year] = @ \cup {<<RegionOf(rec), m>>}]
                            /\ summary_df' = Append(summary_df, <<m, RegionOf(rec)>>)
                       ELSE UNCHANGED <<usaFiles, summary_df>>
                  /\ file' = file + 1
                  /\ UNCHANGED <<pc, err>>
    /\ UNCHANGED <<yi, tarExists, tarBytes, downloaded, fetchVars, invocations,
                   serverOK, startVars, allExists, allFiles, restExists, restFiles,
                   summaryFile, sentinel, extracted, csv_files>>

\* Lines 262-303, one iteration: read the record, and move it under its
\* region code if it has one.  A record pandas cannot read raises; nothing
\* catches it and the script ends.
ClassifyFile ==
    /\ pc = "classify_file"
    /\ file <= Len(csv_files)
    /\ LET m == csv_files[file]
           rec == allFiles[year][m]
       IN  IF rec = Malformed
             THEN /\ pc' = "crashed"
                  /\ err' = "ClassificationError"
                  /\ UNCHANGED <<allFiles, usaFiles, summary_df, file>>
             ELSE /\ IF RegionOf(rec) /= None
                       THEN /\ allFiles' = [allFiles EXCEPT ![year][m] = NoFile]
                            /\ usaFiles' = [usaFiles EXCEPT
                                  ![year] = @ \cup {<<RegionOf(rec), m>>}]
                            /\ summary_df' = Append(summary_df, <<m, RegionOf(rec)>>)
                       ELSE UNCHANGED <<allFiles, usaFiles, summary_df>>
                  /\ file' = file + 1
                  /\ UNCHANGED <<pc, err>>
    /\ UNCHANGED <<yi, tarExists, tarBytes, downloaded, fetchVars, invocations,
                   serverOK, startVars, allExists, restExists, restFiles,
                   summaryFile, sentinel, extracted, csv_files>>

\* Lines 306-317: the summary CSV if any file was moved, the sentinel text
\* file otherwise.
WriteSummary ==
    /\ pc = "classify_file"
    /\ file > Len(csv_files)
    /\ IF summary_df /= <<>>
         THEN /\ summaryFile' = [summaryFile EXCEPT
                    ![year] = [exists |-> TRUE, rows |-> summary_df]]
              /\ UNCHANGED sentinel
         ELSE /\ sentinel' = [sentinel EXCEPT ![year] = TRUE]
              /\ UNCHANGED summaryFile
    /\ pc' = "rename_rest"
    /\ UNCHANGED <<yi, tarExists, tarBytes, downloaded, fetchVars, invocations,
                   serverOK, startVars, err, allExists, allFiles, usaFiles,
                   restExists, restFiles, extracted, classVars>>

\* Faulty variant: the rename done without the test for an existing Rest.
RenameRest_NoGuard ==
    /\ pc = "rename_rest"
    /\ IF allExists[year]
         THEN /\ restExists' = [restExists EXCEPT ![year] = TRUE]
              /\ restFiles' = [restFiles EXCEPT
                    ![year] = {m \in Members : allFiles[year][m] /= NoFile}]
              /\ allExists' = [allExists EXCEPT ![year] = FALSE]
              /\ allFiles' = [allFiles EXCEPT ![year] = [m \in Members |-> NoFile]]
         ELSE UNCHANGED <<restExists, restFiles, allExists, allFiles>>
    /\ csv_files' = <<>> /\ file' = 0 /\ summary_df' = <<>>
    /\ yi' = yi + 1
    /\ pc' = IF yi + 1 <= Len(year_list) THEN "locate" ELSE "finished"
    /\ downloaded' = "unset"
    /\ invocations' = 0
    /\ UNCHANGED <<tarExists, tarBytes, fetchVars, serverOK, startVars, err,
                   usaFiles, summaryFile, sentinel, extracted>>

\* Faulty variant: the rename left out.
RenameRest_NoRename ==
    /\ pc = "rename_rest"
    /\ csv_files' = <<>> /\ file' = 0 /\ summary_df' = <<>>
    /\ yi' = yi + 1
    /\ pc' = IF yi + 1 <= Len(year_list) THEN "locate" ELSE "finished"
    /\ downloaded' = "unset"
    /\ invocations' = 0
    /\ UNCHANGED <<tarExists, tarBytes, fetchVars, serverOK, startVars, err,
                   treeVars, extracted>>

\* Lines 320-323: rename All to Rest unless Rest exists; the function
\* returns and the main loop takes the next year (line 330).
RenameRest ==
    /\ pc = "rename_rest"
    /\ IF allExists[year] /\ ~restExists[year]
         THEN /\ restExists' = [restExists EXCEPT ![year] = TRUE]
              /\ restFiles' = [restFiles EXCEPT
                    ![year] = {m \in Members : allFiles[year][m] /= NoFile}]
              /\ allExists' = [allExists EXCEPT ![year] = FALSE]
              /\ allFiles' = [allFiles EXCEPT ![year] = [m \in Members |-> NoFile]]
         ELSE UNCHANGED <<restExists, restFiles, allExists, allFiles>>
    /\ csv_files' = <<>> /\ file' = 0 /\ summary_df' = <<>>
    /\ yi' = yi + 1
    /\ pc' = IF yi + 1 <= Len(year_list) THEN "locate" ELSE "finished"
    /\ downloaded' = "unset"
    /\ invocations' = 0
    /\ UNCHANGED <<tarExists, tarBytes, fetchVars, serverOK, startVars, err,
                   usaFiles, summaryFile, sentinel, extracted>>

\* The environment: from some point on the endpoint answers correctly.
Stabilize ==
    /\ ~serverOK
    /\ serverOK' = TRUE
    /\ UNCHANGED <<yi, pc, tarExists, tarBytes, downloaded, fetchVars, invocations,
                   startVars, err,
                   workVars>>

Next ==
    \/ Locate
    \/ Invoke
    \/ SendRequest
    \/ RequestFails
    \/ StreamChunk
    \/ StreamFails
    \/ StreamDone
    \/ AttemptFailed
    \/ RetrySleep
    \/ AfterReturn
    \/ Cooldown
    \/ ExtractOpen
    \/ ExtractMember
    \/ ExtractMemberFails
    \/ ExtractRemove
    \/ ClassifyList
    \/ ClassifyFile
    \/ WriteSummary
    \/ RenameRest
    \/ Stabilize

Spec == Init /\ [][Next]_vars

\* ------------------------------------------------------------ reruns
\* The script run again on the same folders after it ended (normally or on
\* an uncaught exception): module level, lines 44-60 and 330; the files on
\* disk are what the earlier run left.
Rerun ==
    /\ pc \in {"finished", "crashed"}
    /\ runs < MaxReruns
    /\ runs' = runs + 1
    /\ yi' = 1
    /\ pc' = "locate"
    /\ downloaded' = "unset"
    /\ attempt' = 0 /\ existing_size' = 0 /\ ranged' = FALSE /\ status' = 0
    /\ body' = <<>> /\ partial' = <<>> /\ requests' = 0
    /\ invocations' = 0
    /\ err' = "none"
    /\ extracted' = 0
    /\ csv_files' = <<>> /\ file' = 0 /\ summary_df' = <<>>
    /\ start_size' = [y \in Years |-> IF tarExists[y] THEN Len(tarBytes[y]) ELSE -1]
    /\ tree0' = [y \in Years |-> [rest |-> restExists[y], usa |-> usaFiles[y] /= {}]]
    /\ UNCHANGED <<tarExists, tarBytes, serverOK, treeVars, station_name,
                   state_abbreviation>>

\* The reruns are followed for the first year of year_list, downloaded
\* from an endpoint that answers correctly: the later years start with a
\* truncated archive, which ends every run at their Extract.
InitRerun ==
    /\ Init
    /\ start_size[year_list[1]] = -1
    /\ \A i \in 2..Len(year_list) : start_size[year_list[i]] = 1

NextRerun ==
    \/ Locate \/ Invoke \/ SendRequest \/ StreamChunk \/ StreamDone
    \/ AfterReturn \/ ExtractOpen \/ ExtractMember \/ ExtractMemberFails
    \/ ExtractRemove \/ ClassifyList \/ ClassifyFile \/ WriteSummary
    \/ RenameRest \/ Rerun

RerunSpec == InitRerun /\ [][NextRerun]_vars

\* ------------------------------------------------------------ region code
\* The characters of the names given to the region-code extraction.
Alphabet == {"A", "K", "U", "S", " ", ","}

NamesUpTo(n) == UNION {[1..k -> Alphabet] : k \in 0..n}

\* The classifier's decision for one station name (lines 272-286), run on
\* its own for every name of up to MaxNameLen characters.
InitRegex ==
    /\ Init
    /\ \A y \in Years : start_size[y] = -1

ClassifyName ==
    /\ pc = "locate"
    /\ yi = 1
    /\ \E n \in NamesUpTo(MaxNameLen) :
         /\ station_name' = n
         /\ state_abbreviation' = RegionOf(Named(n))
    /\ pc' = "classified_name"
    /\ UNCHANGED <<yi, tarExists, tarBytes, downloaded, fetchVars, invocations,
                   serverOK, start_size, runs, tree0, err, workVars>>

RegexSpec == InitRegex /\ [][ClassifyName]_vars

\* The steps of the script; Stabilize is the environment's.
Program ==
    \/ Locate \/ Invoke \/ SendRequest \/ RequestFails \/ StreamChunk
    \/ StreamFails \/ StreamDone \/ AttemptFailed \/ RetrySleep \/ AfterReturn
    \/ Cooldown \/ ExtractOpen \/ ExtractMember \/ ExtractMemberFails
    \/ ExtractRemove \/ ClassifyList \/ ClassifyFile \/ WriteSummary \/ RenameRest

\* The script is a sequential process that keeps running: a sleep ends, a
\* request returns or raises (timeout = 60, line 121).
LiveSpec == Init /\ [][Next]_vars /\ WF_vars(Program)

\* ------------------------------------------------------------ claims
FetchPcs == {"invoke", "attempt", "stream", "attempt_failed", "retry_sleep",
             "returned", "cooldown"}
ExtractPcs == {"extract_open", "extract_member"}
ClassifyPcs == {"classify_list", "classify_file", "rename_rest"}

\* Member m of year y is somewhere in the year's working tree.
Present(y, m) ==
    \/ allFiles[y][m] /= NoFile
    \/ m \in restFiles[y]
    \/ \E f \in usaFiles[y] : f[2] = m

\* C1. Resume correctness: when the function returns the file path after a
\* request that resumed a partial file (the first S bytes of the archive,
\* 0 < S < ArchiveSize), the local file equals the remote archive, whether
\* the answer was 200 or 206.
C1_ResumeByteIdentical ==
    (/\ pc = "returned" /\ downloaded = "path"
     /\ 0 < existing_size /\ existing_size < ArchiveSize
     /\ partial = SubSeq(Remote, 1, existing_size))
    => tarBytes[year] = Remote

\* C2. No silent concatenation: in no state does the local file consist of
\* the previously stored partial bytes followed by bytes of a full-content
\* (200) body that starts at remote offset 0.
C2_NoSilentConcatenation ==
    ~(/\ pc \in FetchPcs
      /\ status = 200 /\ ranged /\ existing_size > 0
      /\ \E k \in 1..ArchiveSize :
           tarBytes[year] = partial \o SubSeq(Remote, 1, k))

\* C3. Retry bound: an invocation makes at most max_retries attempts (one
\* request each), and it returns None only after exactly max_retries
\* attempts, all failed.
C3_RetryBound ==
    /\ requests <= max_retries
    /\ pc \in {"attempt_failed", "stream"} => requests = attempt
    /\ (pc = "returned" /\ downloaded = "None")
         => (requests = max_retries /\ attempt = max_retries)

C3_Witness ==
    pc = "returned" /\ downloaded = "None" /\ requests = max_retries /\ status = 0

\* C4. Outer unbounded retry: a None return always leads to the cooldown
\* and the cooldown to a new invocation; the fetch loop is left only with a
\* path, towards Extract: never to a terminal state and never to the next
\* year.
C4_Step ==
    /\ (pc = "returned" /\ downloaded = "None" /\ pc' /= pc) => pc' = "cooldown"
    /\ (pc = "cooldown" /\ pc' /= pc) => (pc' = "invoke" /\ yi' = yi)
    /\ (pc \in FetchPcs /\ pc' \notin FetchPcs)
         => (pc' = "extract_open" /\ downloaded = "path" /\ yi' = yi)
    /\ pc \in FetchPcs => (yi' = yi /\ err' = "none")

C4_OuterRetry == [][C4_Step]_vars

C4_Witness ==
    pc = "invoke" /\ invocations = MaxInvocations /\ status = 404

\* C5. Archive acquisition eventually succeeds: once the endpoint answers
\* every request correctly, the fetch loop leads to Extract.
C5_EventuallyAcquired ==
    (serverOK /\ pc \in FetchPcs) ~> (pc = "extract_open")

\* C6. Partial files are never discarded: no step of the fetch loop (failed
\* attempt, None return, cooldown included) deletes or truncates an archive
\* file; the bytes on disk stay as a prefix.
C6_Step ==
    pc \in FetchPcs =>
        \A y \in Years :
            tarExists[y] => (tarExists'[y] /\ IsPrefix(tarBytes[y], tarBytes'[y]))

C6_PartialKept == [][C6_Step]_vars

C6_Witness ==
    /\ pc = "stream" /\ invocations = MaxInvocations
    /\ existing_size > 0 /\ Len(tarBytes[year]) > existing_size

\* C7. Resume across restarts: for a year whose archive was left partial by
\* an earlier run (S bytes, 0 < S < ArchiveSize), extraction starts only on
\* the completed file, obtained by downloading.
C7_ResumeAcrossRestart ==
    (/\ pc \in ExtractPcs
     /\ 0 < start_size[year] /\ start_size[year] < ArchiveSize)
    => (tarBytes[year] = Remote /\ downloaded = "path")

\* C8. Strict sequencing: Extract works only on the complete archive, and
\* Classify starts only when every member has been extracted.
C8_StrictSequencing ==
    /\ pc \in ExtractPcs => (tarExists[year] /\ tarBytes[year] = Remote)
    /\ pc \in ClassifyPcs => \A m \in Members : Present(year, m)

\* C9. Extraction failure preserves the archive: after an extraction error
\* the archive still exists and nothing of Classify has run for the year;
\* the archive is gone only when every member has been extracted.
C9_ArchiveKeptOnExtractFailure ==
    /\ (pc = "crashed" /\ err = "ExtractionError")
         => /\ tarExists[year]
            /\ usaFiles[year] = {} /\ ~restExists[year]
            /\ ~summaryFile[year].exists /\ ~sentinel[year]
    /\ (pc \in ExtractPcs \cup ClassifyPcs \cup {"crashed"} /\ ~tarExists[year])
         => \A m \in Members : Present(year, m)
    /\ pc \in ClassifyPcs => err = "none"

C9_Witness ==
    /\ pc = "crashed" /\ err = "ExtractionError"
    /\ extracted >= 1 /\ tarBytes[year] = Remote

\* C10. Batch isolation: a fatal extraction or classification error never
\* ends the script while later years of year_list are unprocessed.
C10_BatchIsolation ==
    ~(pc = "crashed" /\ yi < Len(year_list))


\* Years whose pipeline has completed in the current run.
Completed == {year_list[i] : i \in {j \in 1..Len(year_list) : j < yi}}

\* Member m of year y is in a region folder of the USA tree.
InRegion(y, m) == \E f \in usaFiles[y] : f[2] = m

\* Member m of year y is in exactly one of a region folder and Rest, and
\* nowhere else.
ExactlyOnePlace(y, m) ==
    /\ InRegion(y, m) /= (m \in restFiles[y])
    /\ Cardinality({f \in usaFiles[y] : f[2] = m}) <= 1
    /\ allFiles[y][m] = NoFile

\* C11. Per-file classification errors are contained: no record file, however
\* malformed, ends the classification of a year with an exception.
C11_ClassificationErrorsContained ==
    ~(pc = "crashed" /\ err = "ClassificationError")

C14_SummarySentinelExclusive ==
    /\ \A y \in Years : ~(summaryFile[y].exists /\ sentinel[y])
    /\ \A y \in Completed : summaryFile[y].exists \/ sentinel[y]

\* C15. Idempotent re-run: a run that finds the completed working tree of
\* an earlier run of the year (its Rest folder) neither downloads nor
\* extracts for that year.
C15_IdempotentRerun ==
    pc \in {"attempt", "stream", "extract_member"} => ~tree0[year].rest

\* C16. Pipeline state machine: Locate changes nothing on disk and leads to
\* Extract when it found the archive and to the fetch loop only otherwise;
\* the fetch loop leads to Extract, Extract to Classify, Classify to the
\* next year; no request is sent for a year whose archive was found.
C16_Step ==
    /\ (pc = "locate" /\ pc' /= pc)
         => /\ UNCHANGED <<tarExists, tarBytes, treeVars>>
            /\ pc' = IF tarExists[year] THEN "extract_open" ELSE "invoke"
    /\ pc \in FetchPcs => pc' \in FetchPcs \cup {"extract_open"}
    /\ pc \in ExtractPcs => pc' \in ExtractPcs \cup {"classify_list", "crashed"}
    /\ pc \in ClassifyPcs => pc' \in ClassifyPcs \cup {"locate", "finished", "crashed"}
    /\ yi' /= yi => (pc = "rename_rest" /\ yi' = yi + 1)
    /\ requests' > requests => downloaded = "None"

C16_StateMachine == [][C16_Step]_vars

C16_Witness ==
    pc = "classify_list" /\ downloaded = "found" /\ start_size[year] = ArchiveSize

\* Only spaces and at most one comma stand at positions a..b of s.
Separators(s, a, b) ==
    /\ \A p \in a..b : s[p] \in {" ", ","}
    /\ Cardinality({p \in a..b : s[p] = ","}) <= 1

\* The code c is what C17 allows for the name s: s ends with the marker US,
\* and c is a token of two uppercase letters of its own, followed only by
\* separators up to that marker.
StandaloneCodeBeforeMarker(s, c) ==
    /\ Len(s) >= 4
    /\ LastTwo(s) = <<"U", "S">>
    /\ \E i \in 1..(Len(s) - 3) :
         /\ <<s[i], s[i + 1]>> = c
         /\ s[i] \in Upper /\ s[i + 1] \in Upper
         /\ Boundary(s, i - 1) /\ Boundary(s, i + 1)
         /\ Separators(s, i + 2, Len(s) - 2)

\* C17. Region-code extraction: the classifier assigns a code to a name only
\* when the name ends with US and the code is a standalone two-letter token
\* right before the marker, never letters fused with the marker; the three
\* example names give AK, none and none.
C17_RegionCode ==
    /\ (pc = "classified_name" /\ state_abbreviation /= None)
         => StandaloneCodeBeforeMarker(station_name, state_abbreviation)
    /\ RegionOf(Named(Name_AK)) = <<"A", "K">>
    /\ RegionOf(Named(Name_FR)) = None
    /\ RegionOf(Named(Name_NoCode)) = None

\* C18. Transport failures are absorbed by the attempt loop: a failed
\* request or a broken stream ends the attempt and no exception leaves the
\* function; a failed attempt before the last one is followed by one sleep
\* and the next attempt, the last one by the return of None without sleep.
C18_Step ==
    /\ pc \in {"attempt", "stream"}
         => (pc' \in {"attempt", "stream", "attempt_failed", "returned"} /\ err' = "none")
    /\ (pc = "attempt" /\ pc' /= pc /\ status' \notin {200, 206}) => pc' = "attempt_failed"
    /\ (pc = "attempt_failed" /\ pc' /= pc)
         => IF attempt < max_retries
              THEN pc' = "retry_sleep" /\ downloaded' = downloaded
              ELSE pc' = "returned" /\ downloaded' = "None"
    /\ (pc = "retry_sleep" /\ pc' /= pc) => (pc' = "attempt" /\ attempt' = attempt + 1)
    /\ (pc' = "retry_sleep" /\ pc' /= pc) => pc = "attempt_failed"

C18_FailuresAbsorbed == [][C18_Step]_vars

C18_Witness ==
    pc = "retry_sleep" /\ status \in {200, 206} /\ body /= <<>>

\* The members named by the rows of a summary.
RowMembers(rows) == {rows[k][1] : k \in 1..Len(rows)}

\* C19. Summary index matches the moves: when the filter has gone through
\* every file with at least one match, the summary file holds the rows of
\* summary_df, one row per moved file in processing order, each file lies in
\* the folder of its row's code, and a file without a row is still in All.
C19_SummaryMatchesMoves ==
    (pc = "rename_rest" /\ summary_df /= <<>>) =>
        /\ summaryFile[year] = [exists |-> TRUE, rows |-> summary_df]
        /\ \A k \in 1..Len(summary_df) :
             /\ summary_df[k][2] /= None
             /\ <<summary_df[k][2], summary_df[k][1]>> \in usaFiles[year]
             /\ allFiles[year][summary_df[k][1]] = NoFile
        /\ \A k, l \in 1..Len(summary_df) : k < l => summary_df[k][1] < summary_df[l][1]
        /\ Cardinality(usaFiles[year]) = Len(summary_df)
        /\ \A m \in Members \ RowMembers(summary_df) :
             allFiles[year][m] /= NoFile /\ ~InRegion(year, m)

C19_Witness ==
    /\ pc = "rename_rest"
    /\ summaryFile[year].rows = << <<1, <<"C", "A">> >> >>
    /\ usaFiles[year] = {<< <<"C", "A">>, 1 >>}
    /\ allFiles[year][2] = Named(Name_FR)

\* C20. Rest rename guard: the rename of All to Rest happens only when no
\* Rest exists; when Rest exists it is skipped, Rest and its files and All
\* and its files stay as they are.
C20_Step ==
    (pc = "rename_rest" /\ pc' /= pc) =>
        IF restExists[year]
          THEN UNCHANGED <<restExists, restFiles, allExists, allFiles>>
          ELSE allExists[year] =>
                 /\ restExists'[year] /\ ~allExists'[year]
                 /\ restFiles'[year] = {m \in Members : allFiles[year][m] /= NoFile}

C20_RenameGuard == [][C20_Step]_vars

C20_Witness ==
    /\ pc = "locate" /\ year_list[1] \in Completed
    /\ tree0[year_list[1]].rest
    /\ allExists[year_list[1]] /\ restExists[year_list[1]]
    /\ \E m \in Members : allFiles[year_list[1]][m] /= NoFile /\ m \notin restFiles[year_list[1]]

=============================================================================
